---- MODULE Spec2Model ----
(***************************************************************************)
(* A model of src/src/App.tsx (PowerBIClone): the ingestion of CSV and     *)
(* spreadsheet files, the default-axis effect, the chart series            *)
(* (processedData) and the summary statistics (yAxisStats).                *)
(*                                                                         *)
(* A JavaScript string is a sequence of one-character strings, so that     *)
(* scanning, trimming and splitting are computed as the code computes      *)
(* them.  A JavaScript object is the sequence of its own enumerable        *)
(* properties in property order (what Object.keys and Object.entries       *)
(* walk), each a record [k |-> key, v |-> value].                          *)
(***************************************************************************)
EXTENDS Integers, Sequences, FiniteSets, TLC

VARIABLES
    data,       \* useState([])   : the Dataset, a sequence of rows
    columns,    \* useState([])   : the Column List
    xAxis,      \* useState('')   : the X selection ('' is the empty selection)
    yAxis,      \* useState('')   : the Y selection
    chartType,  \* useState('Bar')
    fileName,   \* useState('')
    loading,    \* useState(false)
    error,      \* useState('')   : the pieces of the message, <<>> for ''
    uploads,    \* every handleFileUpload call so far: its file, whether a
                \* FileReader read was started for it, and where it stands
    last,       \* the handler that ran last, and the upload it ran for
    csvString,  \* the text handed to the delimited-text parser on its own
    csvResult   \* what the parser made of it

vars == <<data, columns, xAxis, yAxis, chartType, fileName, loading, error,
          uploads, last, csvString, csvResult>>

appVars == <<data, columns, xAxis, yAxis, chartType, fileName, loading, error,
             uploads, last>>

----------------------------------------------------------------------------
(* Bounds of the model. *)

\* handleFileUpload calls in one behaviour
MaxUploads == 2

\* characters of a text handed to the parser on its own
MaxText == 6

\* rows of a dataset built row by row from YChoices
MaxRows == 3

\* columns of a dataset built column by column from ColumnNames
MaxCols == 3

\* rows of the large datasets, beyond those around MAX_DISPLAY_DATA
LargeRows == 150

----------------------------------------------------------------------------
(* Strings. *)

Min(a, b) == IF a < b THEN a ELSE b

\* the sequences over S of length at most n
RECURSIVE SeqsUpTo(_, _)
SeqsUpTo(S, n) ==
    IF n = 0 THEN {<<>>}
    ELSE LET shorter == SeqsUpTo(S, n - 1)
         IN  shorter \cup {Append(s, c) : s \in {t \in shorter : Len(t) = n - 1}, c \in S}

Digits == {"0", "1", "2", "3", "4", "5", "6", "7", "8", "9"}

\* what String.prototype.trim strips, among the characters the model uses
Whitespace == {" ", "\t", "\r", "\n"}

DigitVal(c) ==
    CASE c = "0" -> 0 [] c = "1" -> 1 [] c = "2" -> 2 [] c = "3" -> 3
      [] c = "4" -> 4 [] c = "5" -> 5 [] c = "6" -> 6 [] c = "7" -> 7
      [] c = "8" -> 8 [] c = "9" -> 9

UpperLetters == <<"A", "B", "C", "D", "E", "F", "G", "H", "I", "J", "K", "L", "M", "N", "O", "P", "Q", "R", "S", "T", "U", "V", "W", "X", "Y", "Z">>
LowerLetters == <<"a", "b", "c", "d", "e", "f", "g", "h", "i", "j", "k", "l", "m", "n", "o", "p", "q", "r", "s", "t", "u", "v", "w", "x", "y", "z">>

\* String.prototype.toLowerCase on one character
LowerChar(c) ==
    IF \E i \in 1..Len(UpperLetters) : UpperLetters[i] = c
    THEN LowerLetters[CHOOSE i \in 1..Len(UpperLetters) : UpperLetters[i] = c]
    ELSE c

toLowerCase(s) == [i \in 1..Len(s) |-> LowerChar(s[i])]

RECURSIVE trimStart(_)
trimStart(s) ==
    IF s # <<>> /\ s[1] \in Whitespace THEN trimStart(Tail(s)) ELSE s

RECURSIVE trimEnd(_)
trimEnd(s) ==
    IF s # <<>> /\ s[Len(s)] \in Whitespace
    THEN trimEnd(SubSeq(s, 1, Len(s) - 1))
    ELSE s

trim(s) == trimEnd(trimStart(s))

\* line.substring(from, to), both 0-based, to exclusive
substring(s, from, to) == SubSeq(s, from + 1, to)

\* s.replace(/^"|"$/g, ''): one leading and one trailing quote go
stripQuotes(s) ==
    LET a == IF s # <<>> /\ s[1] = "\"" THEN Tail(s) ELSE s
    IN  IF a # <<>> /\ a[Len(a)] = "\"" THEN SubSeq(a, 1, Len(a) - 1) ELSE a

\* s.split(sep) for a one-character separator
RECURSIVE splitFrom(_, _, _, _)
splitFrom(s, sep, cur, out) ==
    IF s = <<>> THEN Append(out, cur)
    ELSE IF s[1] = sep THEN splitFrom(Tail(s), sep, <<>>, Append(out, cur))
    ELSE splitFrom(Tail(s), sep, Append(cur, s[1]), out)

split(s, sep) == splitFrom(s, sep, <<>>, <<>>)

\* s.split(sep).pop()
pop(parts) == parts[Len(parts)]

\* whether needle occurs in s (what a regex of one literal alternative tests)
includes(s, needle) ==
    \E i \in 0..(Len(s) - Len(needle)) :
        SubSeq(s, i + 1, i + Len(needle)) = needle

----------------------------------------------------------------------------
(* Values.  A Number is the double that the decimal p / 10^f rounds to;    *)
(* the decimals of the model are short enough for distinct decimals to be  *)
(* distinct doubles, in the same order.                                    *)

Num(p, f) == [t |-> "number", p |-> p, f |-> f, s |-> <<>>]
Str(s) == [t |-> "string", p |-> 0, f |-> 0, s |-> s]
Bool(b) == [t |-> "boolean", p |-> IF b THEN 1 ELSE 0, f |-> 0, s |-> <<>>]
Undefined == [t |-> "undefined", p |-> 0, f |-> 0, s |-> <<>>]

RECURSIVE DecVal(_)
DecVal(ds) ==
    IF ds = <<>> THEN 0
    ELSE 10 * DecVal(SubSeq(ds, 1, Len(ds) - 1)) + DigitVal(ds[Len(ds)])

RECURSIVE Normal(_, _)
Normal(p, f) ==
    IF p = 0 THEN Num(0, 0)
    ELSE IF f > 0 /\ p % 10 = 0 THEN Normal(p \div 10, f - 1)
    ELSE Num(p, f)

\* The StringNumericLiteral grammar over the characters of the model:
\* digits with at most one "." and at least one digit.  (Signs, exponents,
\* 0x and Infinity are never spelt by the texts of the model.)
IsDecimalLiteral(s) ==
    /\ \A i \in 1..Len(s) : s[i] \in Digits \cup {"."}
    /\ Cardinality({i \in 1..Len(s) : s[i] = "."}) <= 1
    /\ \E i \in 1..Len(s) : s[i] \in Digits

\* isNaN(s) for a string: ToNumber trims, and gives 0 for the empty string
isNaN(s) == trim(s) # <<>> /\ ~IsDecimalLiteral(trim(s))

\* Number(s) for a string with ~isNaN(s)
Number(s) ==
    LET t == trim(s)
        dot == IF \E i \in 1..Len(t) : t[i] = "."
               THEN CHOOSE i \in 1..Len(t) : t[i] = "."
               ELSE Len(t) + 1
        ds == SelectSeq(t, LAMBDA c : c \in Digits)
    IN  IF t = <<>> THEN Num(0, 0)
        ELSE Normal(DecVal(ds), IF dot > Len(t) THEN 0 ELSE Len(t) - dot)

RECURSIVE Pow10(_)
Pow10(n) == IF n = 0 THEN 1 ELSE 10 * Pow10(n - 1)

\* a < b for two Numbers
NumLess(a, b) == a.p * Pow10(b.f) < b.p * Pow10(a.f)

----------------------------------------------------------------------------
(* Objects. *)

\* An array index key ("0", "7", "12"): such keys come first in property
\* order, ascending, whatever the order they were written in.
IsArrayIndex(k) ==
    /\ k # <<>>
    /\ Len(k) <= 9
    /\ \A i \in 1..Len(k) : k[i] \in Digits
    /\ (Len(k) = 1 \/ k[1] # "0")

HasKey(row, k) == \E i \in 1..Len(row) : row[i].k = k

\* row[k]
Get(row, k) ==
    IF HasKey(row, k)
    THEN row[CHOOSE i \in 1..Len(row) : row[i].k = k].v
    ELSE Undefined

\* row[k] = v
SetProp(row, k, v) ==
    IF HasKey(row, k)
    THEN [i \in 1..Len(row) |-> IF row[i].k = k THEN [k |-> k, v |-> v] ELSE row[i]]
    ELSE IF IsArrayIndex(k)
    THEN LET before == SelectSeq(row, LAMBDA e :
                           IsArrayIndex(e.k) /\ DecVal(e.k) < DecVal(k))
             after == SubSeq(row, Len(before) + 1, Len(row))
         IN  before \o <<[k |-> k, v |-> v]>> \o after
    ELSE Append(row, [k |-> k, v |-> v])

\* Object.keys(row)
ObjectKeys(row) == [i \in 1..Len(row) |-> row[i].k]

KeySet(row) == {row[i].k : i \in 1..Len(row)}

----------------------------------------------------------------------------
(* The delimited-text parser. *)

\* the field pushed for line.substring(start, i)
Field(raw) == stripQuotes(trim(raw))

\* a faulty scanner, to compare with: it splits on every comma, quoted or not
RECURSIVE ScanLineEveryComma(_, _, _, _, _)
ScanLineEveryComma(line, i, start, inQuotes, result) ==
    IF i >= Len(line)
    THEN Append(result, Field(substring(line, start, Len(line))))
    ELSE IF line[i + 1] = ","
    THEN ScanLineEveryComma(line, i + 1, i + 1, inQuotes,
                            Append(result, Field(substring(line, start, i))))
    ELSE ScanLineEveryComma(line, i + 1, start, inQuotes, result)

RECURSIVE ScanLine(_, _, _, _, _)
ScanLine(line, i, start, inQuotes, result) ==
    IF i >= Len(line)
    THEN Append(result, Field(substring(line, start, Len(line))))
    ELSE IF line[i + 1] = "\""
    THEN ScanLine(line, i + 1, start, ~inQuotes, result)
    ELSE IF line[i + 1] = "," /\ ~inQuotes
    THEN ScanLine(line, i + 1, i + 1, inQuotes,
                  Append(result, Field(substring(line, start, i))))
    ELSE ScanLine(line, i + 1, start, inQuotes, result)

parseCSVLine(line) == ScanLine(line, 0, 0, FALSE, <<>>)

\* "Convert to number if possible"
Coerce(value) ==
    IF value # <<>> /\ ~isNaN(value) THEN Number(value) ELSE Str(value)

\* headers.forEach((header, index) => ...) from index on
RECURSIVE BuildRow(_, _, _, _)
BuildRow(headers, values, index, row) ==
    IF index > Len(headers) THEN row
    ELSE LET value == IF index <= Len(values) THEN values[index] ELSE <<>>
         IN  BuildRow(headers, values, index + 1,
                      SetProp(row, headers[index], Coerce(value)))

Resolve(rows) == [ok |-> TRUE, rows |-> rows, message |-> ""]
Reject(message) == [ok |-> FALSE, rows |-> <<>>, message |-> message]

\* reader.onload of parseCSVFile, on the text read
parseCSVFile(csvStr) ==
    IF csvStr = <<>> THEN Reject("Failed to read file")
    ELSE LET lines == SelectSeq(split(csvStr, "\n"), LAMBDA l : trim(l) # <<>>)
         IN  IF Len(lines) = 0 THEN Reject("CSV file is empty")
             ELSE LET headers == parseCSVLine(lines[1])
                  IN  Resolve([n \in 1..(Len(lines) - 1) |->
                          BuildRow(headers, parseCSVLine(lines[n + 1]), 1, <<>>)])

NotRun == [ok |-> FALSE, rows |-> <<>>, message |-> "not run"]

----------------------------------------------------------------------------
(* IEEE 754 doubles, for the arithmetic of yAxisStats.  A natural number   *)
(* of any size is the sequence of its digits in base Base, the most        *)
(* significant first and not 0.  A positive double is [m |-> its           *)
(* significand, a natural number of Precision bits, e |-> the exponent of  *)
(* its last bit], the value m * 2^e; zero has no digits.                   *)

\* the significand width of a double
Precision == 53

\* the bits of one digit, and the base
DigitBits == 10
Base == 1024

RECURSIVE Pow2(_)
Pow2(n) == IF n = 0 THEN 1 ELSE 2 * Pow2(n - 1)

RECURSIVE BitLen(_)
BitLen(d) == IF d = 0 THEN 0 ELSE 1 + BitLen(d \div 2)

RECURSIVE BNorm(_)
BNorm(ds) == IF ds # <<>> /\ ds[1] = 0 THEN BNorm(Tail(ds)) ELSE ds

RECURSIVE BFromInt(_)
BFromInt(p) == IF p = 0 THEN <<>> ELSE Append(BFromInt(p \div Base), p % Base)

BZeros(n) == [i \in 1..n |-> 0]

BBitLen(X) == IF X = <<>> THEN 0 ELSE (Len(X) - 1) * DigitBits + BitLen(X[1])

BOdd(X) == X # <<>> /\ X[Len(X)] % 2 = 1

\* a + b + carry for two digit strings of one length, from digit i down
RECURSIVE BAddFrom(_, _, _, _, _)
BAddFrom(a, b, i, carry, out) ==
    IF i = 0 THEN <<carry>> \o out
    ELSE LET t == a[i] + b[i] + carry
         IN  BAddFrom(a, b, i - 1, t \div Base, <<t % Base>> \o out)

BAdd(X, Y) ==
    LET n == IF Len(X) > Len(Y) THEN Len(X) ELSE Len(Y)
    IN  BNorm(BAddFrom(BZeros(n - Len(X)) \o X, BZeros(n - Len(Y)) \o Y, n, 0, <<>>))

\* X * c for a small c, from digit i down
RECURSIVE BMulFrom(_, _, _, _, _)
BMulFrom(X, c, i, carry, out) ==
    IF i = 0 THEN <<carry>> \o out
    ELSE LET t == X[i] * c + carry
         IN  BMulFrom(X, c, i - 1, t \div Base, <<t % Base>> \o out)

\* X * 2^k
BShl(X, k) ==
    IF X = <<>> THEN <<>>
    ELSE BNorm(BMulFrom(X, Pow2(k % DigitBits), Len(X), 0, <<>>))
             \o BZeros(k \div DigitBits)

\* X divided by a small n, digit by digit: the quotient and the remainder
RECURSIVE BDivFrom(_, _, _, _, _)
BDivFrom(X, n, i, r, out) ==
    IF i > Len(X) THEN [q |-> BNorm(out), r |-> r]
    ELSE LET t == r * Base + X[i]
         IN  BDivFrom(X, n, i + 1, t % n, Append(out, t \div n))

BDivSmall(X, n) == BDivFrom(X, n, 1, 0, <<>>)

\* X divided by 2^k, and whether anything was cut off
BShr(X, k) ==
    LET cut == Min(k \div DigitBits, Len(X))
        kept == SubSeq(X, 1, Len(X) - cut)
        d == BDivSmall(kept, Pow2(k % DigitBits))
    IN  [q |-> d.q,
         sticky |-> d.r # 0 \/ \E i \in (Len(X) - cut + 1)..Len(X) : X[i] # 0]

\* the first digit two digit strings of one length differ at, 0 when none
FirstDiff(a, b) ==
    IF a = b THEN 0 ELSE CHOOSE i \in 1..Len(a) :
        a[i] # b[i] /\ \A j \in 1..(i - 1) : a[j] = b[j]

\* X < Y
BLess(X, Y) ==
    IF Len(X) # Len(Y) THEN Len(X) < Len(Y)
    ELSE FirstDiff(X, Y) # 0 /\ X[FirstDiff(X, Y)] < Y[FirstDiff(X, Y)]

DZero == [m |-> <<>>, e |-> 0]

\* Round to nearest, ties to even: the exact value is X * 2^e plus, when
\* sticky, something positive below the last bit of X (X # 0, and X has
\* more than Precision bits whenever sticky).
RoundNearestEven(X, e, sticky) ==
    LET len == BBitLen(X)
    IN  IF len <= Precision
        THEN [m |-> BShl(X, Precision - len), e |-> e - (Precision - len)]
        ELSE LET s == len - Precision
                 y == BShr(X, s - 1)
                 guard == BOdd(y.q)
                 keep == BShr(y.q, 1).q
                 up == guard /\ (sticky \/ y.sticky \/ BOdd(keep))
                 inc == BAdd(keep, <<1>>)
             IN  IF ~up THEN [m |-> keep, e |-> e + s]
                 ELSE IF BBitLen(inc) > Precision
                 THEN [m |-> BShr(inc, 1).q, e |-> e + s + 1]
                 ELSE [m |-> inc, e |-> e + s]

\* how many quotient bits a division works out below the last bit of the
\* dividend
ExtraBits == 90

\* the double nearest to p / q, for integers p, q > 0
FromRatio(p, q) ==
    LET d == BDivSmall(BShl(BFromInt(p), ExtraBits), q)
    IN  RoundNearestEven(d.q, 0 - ExtraBits, d.r # 0)

\* the double a Number stands for
ToDouble(v) == IF v.p = 0 THEN DZero ELSE FromRatio(v.p, Pow10(v.f))

\* x + y
DAdd(x, y) ==
    IF x.m = <<>> THEN y
    ELSE IF y.m = <<>> THEN x
    ELSE LET lo == IF x.e < y.e THEN x.e ELSE y.e
         IN  RoundNearestEven(BAdd(BShl(x.m, x.e - lo), BShl(y.m, y.e - lo)),
                              lo, FALSE)

\* x / n for an integer n > 0
DDivInt(x, n) ==
    IF x.m = <<>> THEN DZero
    ELSE LET d == BDivSmall(BShl(x.m, ExtraBits), n)
         IN  RoundNearestEven(d.q, x.e - ExtraBits, d.r # 0)

\* x < y
DLess(x, y) ==
    IF y.m = <<>> THEN FALSE
    ELSE IF x.m = <<>> THEN TRUE
    ELSE IF x.e # y.e THEN x.e < y.e
    ELSE BLess(x.m, y.m)

----------------------------------------------------------------------------
(* The derived values: the default axes, the chart series, the statistics. *)

MAX_DISPLAY_DATA == 100

\* the alternatives of /amount|value|total|price|cost|sales/
Keywords == <<
    <<"a", "m", "o", "u", "n", "t">>,
    <<"v", "a", "l", "u", "e">>,
    <<"t", "o", "t", "a", "l">>,
    <<"p", "r", "i", "c", "e">>,
    <<"c", "o", "s", "t">>,
    <<"s", "a", "l", "e", "s">> >>

\* col.toLowerCase().match(/amount|value|total|price|cost|sales/)
MatchesKeyword(col) ==
    \E i \in 1..Len(Keywords) : includes(toLowerCase(col), Keywords[i])

\* columns.filter(col => data.length !== 0 && typeof data[0][col] === 'number')
numericColumns(cols, dat) ==
    SelectSeq(cols, LAMBDA col : Len(dat) # 0 /\ Get(dat[1], col).t = "number")

\* a faulty choice, to compare with: the first numeric column, whatever its
\* name
preferredYAxisFirstNumeric(cols, dat) ==
    LET numeric == numericColumns(cols, dat)
    IN  IF numeric # <<>> THEN numeric[1] ELSE <<>>

\* numericColumns.find(...) || numericColumns[0] || ''
preferredYAxis(cols, dat) ==
    LET numeric == numericColumns(cols, dat)
        found == SelectSeq(numeric, MatchesKeyword)
    IN  IF found # <<>> /\ found[1] # <<>> THEN found[1]
        ELSE IF numeric # <<>> THEN numeric[1]
        ELSE <<>>

\* a faulty effect, to compare with: it fills in the axes that are empty and
\* keeps the others
UpdateAxesMerging(cols, dat, x, y) ==
    IF Len(cols) > 0
    THEN [x |-> IF x = <<>> THEN cols[1] ELSE x,
          y |-> IF y = <<>> THEN preferredYAxis(cols, dat) ELSE y]
    ELSE [x |-> x, y |-> y]

\* The effect on [columns, data]: the axes it leaves, given the axes before.
UpdateAxes(cols, dat, x, y) ==
    IF Len(cols) > 0
    THEN [x |-> cols[1], y |-> preferredYAxis(cols, dat)]
    ELSE [x |-> x, y |-> y]

\* typeof val === 'number' && !isNaN(val): no value of the model is NaN
IsNumber(val) == val.t = "number"

\* a faulty sort, to compare with: rows of equal value come out in reverse
\* order, so the sort is not stable
sortDescendingTiesReversed(rows, key) ==
    LET n == Len(rows)
        placed == {<<i, 1 + Cardinality({j \in 1..n :
                             \/ NumLess(Get(rows[i], key), Get(rows[j], key))
                             \/ j > i /\ ~NumLess(Get(rows[j], key), Get(rows[i], key))})>> :
                      i \in 1..n}
    IN  [p \in 1..n |-> rows[(CHOOSE e \in placed : e[2] = p)[1]]]

\* Array.prototype.sort((a, b) => b[key] - a[key]): the sort is stable, so
\* a row comes after the rows of greater value and after the rows of equal
\* value that precede it in the array, and before all others.
sortDescending(rows, key) ==
    LET n == Len(rows)
        placed == {<<i, 1 + Cardinality({j \in 1..n :
                             \/ NumLess(Get(rows[i], key), Get(rows[j], key))
                             \/ j < i /\ ~NumLess(Get(rows[j], key), Get(rows[i], key))})>> :
                      i \in 1..n}
    IN  [p \in 1..n |-> rows[(CHOOSE e \in placed : e[2] = p)[1]]]

\* a faulty slice, to compare with: it keeps one row too many
sliceOneMore(rows, n) == SubSeq(rows, 1, Min(n + 1, Len(rows)))

\* rows.slice(0, n)
slice(rows, n) == SubSeq(rows, 1, Min(n, Len(rows)))

\* the useMemo of processedData over (data, xAxis, yAxis)
Project(dat, x, y) ==
    IF Len(dat) = 0 \/ x = <<>> \/ y = <<>> THEN <<>>
    ELSE slice(sortDescending(SelectSeq(dat, LAMBDA item : IsNumber(Get(item, y))),
                              y),
               MAX_DISPLAY_DATA)

processedData == Project(data, xAxis, yAxis)

\* numericValues.reduce((a, b) => a + b, 0), from value i on
RECURSIVE reduceSum(_, _, _)
reduceSum(values, i, acc) ==
    IF i > Len(values) THEN acc
    ELSE IF acc.m = <<>> THEN reduceSum(values, i + 1, ToDouble(values[i]))
    ELSE reduceSum(values, i + 1, DAdd(acc, ToDouble(values[i])))

\* Math.min(...values) and Math.max(...values)
MathMin(values) ==
    values[CHOOSE i \in 1..Len(values) :
        \A j \in 1..Len(values) : ~NumLess(values[j], values[i])]

MathMax(values) ==
    values[CHOOSE i \in 1..Len(values) :
        \A j \in 1..Len(values) : ~NumLess(values[i], values[j])]

NullStats == [null |-> TRUE, min |-> Num(0, 0), max |-> Num(0, 0),
              avg |-> DZero, count |-> 0]

\* the values the statistics are taken over
StatsValues(dat, y) ==
    SelectSeq([i \in 1..Len(dat) |-> Get(dat[i], y)], IsNumber)

\* the useMemo of yAxisStats over (yAxis, data)
Stats(dat, y) ==
    IF y = <<>> \/ Len(dat) = 0 THEN NullStats
    ELSE LET numericValues == StatsValues(dat, y)
         IN  IF Len(numericValues) = 0 THEN NullStats
             ELSE [null |-> FALSE,
                   min |-> MathMin(numericValues),
                   max |-> MathMax(numericValues),
                   avg |-> DDivInt(reduceSum(numericValues, 1, DZero),
                                   Len(numericValues)),
                   count |-> Len(numericValues)]

yAxisStats == Stats(data, yAxis)

----------------------------------------------------------------------------
(* The spreadsheet decoder.  A workbook is what XLSX.read makes of the     *)
(* bytes: nothing (the file has no bytes), an exception (the bytes are not *)
(* a workbook), or a first sheet, a grid of cells whose first row holds    *)
(* the headers; a blank cell is Undefined.                                 *)

\* the message of the exception XLSX.read throws: the library's own text,
\* of which the code only uses that it is a message
DecodeMessage == "File is password-protected"

\* XLSX.utils.sheet_to_json(worksheet): one object per row that has a cell,
\* with a key for each cell of the row that is not blank
RECURSIVE SheetRow(_, _, _, _)
SheetRow(hdr, cells, c, row) ==
    IF c > Len(hdr) THEN row
    ELSE IF c <= Len(cells) /\ cells[c] # Undefined
    THEN SheetRow(hdr, cells, c + 1, SetProp(row, hdr[c], cells[c]))
    ELSE SheetRow(hdr, cells, c + 1, row)

sheet_to_json(sheet) ==
    IF Len(sheet) = 0 THEN <<>>
    ELSE SelectSeq([r \in 1..(Len(sheet) - 1) |->
                       SheetRow(sheet[1], sheet[r + 1], 1, <<>>)],
                   LAMBDA row : row # <<>>)

\* "Clean up data - convert strings to numbers where possible"
CleanValue(value) ==
    IF value.t = "string" /\ ~isNaN(value.s) /\ trim(value.s) # <<>>
    THEN Number(value.s)
    ELSE value

RECURSIVE CleanRow(_, _, _)
CleanRow(row, i, newRow) ==
    IF i > Len(row) THEN newRow
    ELSE CleanRow(row, i + 1, SetProp(newRow, row[i].k, CleanValue(row[i].v)))

\* reader.onload of parseExcelFile, on the bytes read
parseExcelFile(book) ==
    IF book.empty THEN Reject("Failed to read file")
    ELSE IF book.corrupt THEN Reject(DecodeMessage)
    ELSE LET jsonData == sheet_to_json(book.sheet)
         IN  Resolve([r \in 1..Len(jsonData) |-> CleanRow(jsonData[r], 1, <<>>)])

----------------------------------------------------------------------------
(* The files a user picks from. *)

NoBook == [empty |-> TRUE, corrupt |-> FALSE, sheet |-> <<>>]
EmptyBook == [empty |-> FALSE, corrupt |-> FALSE, sheet |-> <<>>]
CorruptBook == [empty |-> FALSE, corrupt |-> TRUE, sheet |-> <<>>]
SheetBook ==
    [empty |-> FALSE, corrupt |-> FALSE,
     sheet |-> << <<<<"q">>, <<"w">>>>,
                  <<Num(1, 0), Str(<<"2">>)>>,
                  <<Num(3, 0), Undefined>>,
                  <<Undefined, Undefined>>,
                  <<Str(<<"a">>), Bool(TRUE)>> >>]

Files == <<
    [name |-> <<"a", ".", "c", "s", "v">>,
     text |-> <<"N", "a", "m", "e", ",", "A", "m", "o", "u", "n", "t", "\n", "A", ",", "1", "0", "\n", "B", ",", "3", "0", "\n", "C", ",", "2", "0", "\n">>,
     book |-> NoBook],
    [name |-> <<"r", ".", "c", "s", "v">>,
     text |-> <<"R", "e", "g", "i", "o", "n", ",", "S", "a", "l", "e", "s", "\n", "E", "U", ",", "5", "\n", "U", "S", ",", "x">>,
     book |-> NoBook],
    [name |-> <<"p", ".", "c", "s", "v">>,
     text |-> <<",", "c", "o", "s", "t", "\n", "r", ",", "0", ".", "1", "\n", "s", ",", "0", ".", "1", "\n", "t", ",", "0", ".", "1">>,
     book |-> NoBook],
    [name |-> <<"e", ".", "c", "s", "v">>,
     text |-> <<"\n", " ", "\n">>,
     book |-> NoBook],
    [name |-> <<"z", ".", "c", "s", "v">>,
     text |-> <<>>,
     book |-> NoBook],
    [name |-> <<"n", ".", "T", "X", "T">>,
     text |-> <<"k", "\n", "1">>,
     book |-> NoBook],
    [name |-> <<"c", "s", "v">>,
     text |-> <<"k", "\n", "1">>,
     book |-> NoBook],
    [name |-> <<"x", ".">>,
     text |-> <<"k", "\n", "1">>,
     book |-> NoBook],
    [name |-> <<"b", ".", "x", "l", "s", "x">>,
     text |-> <<>>,
     book |-> SheetBook],
    [name |-> <<"c", ".", "X", "L", "S">>,
     text |-> <<>>,
     book |-> CorruptBook],
    [name |-> <<"o", ".", "x", "l", "s">>,
     text |-> <<>>,
     book |-> EmptyBook] >>

----------------------------------------------------------------------------
(* The application state after construction (the useState initial values). *)

NoError == <<>>

InitApp ==
    /\ data = <<>>
    /\ columns = <<>>
    /\ xAxis = <<>>
    /\ yAxis = <<>>
    /\ chartType = "Bar"
    /\ fileName = <<>>
    /\ loading = FALSE
    /\ error = NoError
    /\ uploads = <<>>
    /\ last = [op |-> "none", id |-> 0]

----------------------------------------------------------------------------
(* handleFileUpload and the FileReader callbacks.                          *)
(*                                                                         *)
(* An async function runs to its first await within the event that called  *)
(* it, and what follows the await runs in a microtask of the event that    *)
(* settled the promise, so each of the two halves is one step.  The state  *)
(* updates of a step are committed together and the effect on              *)
(* [columns, data] has run before the next event is handled.               *)

ErrorProcessing(message) == <<"Error processing file: ">> \o message
NoValidData == <<"No valid data found in file">>

Supported == {<<"c", "s", "v">>, <<"x", "l", "s", "x">>, <<"x", "l", "s">>}

\* file.name.split('.').pop().toLowerCase()
fileExtension(name) == toLowerCase(pop(split(name, ".")))

\* a faulty dispatch, to compare with: whatever is not a spreadsheet is read
\* as text
ReadForTextByDefault(ext) ==
    IF ext \in {<<"x", "l", "s", "x">>, <<"x", "l", "s">>} THEN "binary" ELSE "text"

\* which FileReader read handleFileUpload starts for an extension
ReadFor(ext) ==
    IF ext = <<"c", "s", "v">> THEN "text"
    ELSE IF ext \in {<<"x", "l", "s", "x">>, <<"x", "l", "s">>} THEN "binary"
    ELSE "none"

Reading == {i \in 1..Len(uploads) : uploads[i].status = "reading"}

\* lines 62-81: the file is picked, the state is cleared, the read starts,
\* or the extension is refused on the spot (catch and finally run at once)
handleFileUpload(f) ==
    LET file == Files[f]
        ext == fileExtension(file.name)
        read == ReadFor(ext)
        axes == UpdateAxes(<<>>, <<>>, xAxis, yAxis)
    IN  /\ Len(uploads) < MaxUploads
        /\ fileName' = file.name
        /\ data' = <<>>
        /\ columns' = <<>>
        /\ xAxis' = axes.x
        /\ yAxis' = axes.y
        /\ IF read = "none"
           THEN /\ error' = ErrorProcessing(<<"Unsupported file type: ">> \o ext)
                /\ loading' = FALSE
           ELSE /\ error' = NoError
                /\ loading' = TRUE
        /\ uploads' = Append(uploads,
               [file |-> f, read |-> read,
                status |-> IF read = "none" THEN "failed" ELSE "reading"])
        /\ last' = [op |-> "upload", id |-> Len(uploads) + 1]
        /\ UNCHANGED <<chartType, csvString, csvResult>>

\* a faulty replacement, to compare with: a selection that is still a column
\* of the new Dataset is kept
ReplaceKeepingSelection(jsonData) ==
    LET cols == ObjectKeys(jsonData[1])
        axes == UpdateAxes(cols, jsonData, xAxis, yAxis)
        Has(col) == \E i \in 1..Len(cols) : cols[i] = col
    IN  /\ data' = jsonData
        /\ columns' = cols
        /\ xAxis' = IF Has(xAxis) THEN xAxis ELSE axes.x
        /\ yAxis' = IF Has(yAxis) THEN yAxis ELSE axes.y

\* lines 83-85 and the effect: the rows of a parse replace the Dataset
Replace(jsonData) ==
    LET cols == ObjectKeys(jsonData[1])
        axes == UpdateAxes(cols, jsonData, xAxis, yAxis)
    IN  /\ data' = jsonData
        /\ columns' = cols
        /\ xAxis' = axes.x
        /\ yAxis' = axes.y

\* lines 83-94: what follows the await, for upload id and what its promise
\* settled with
Settle(id, result) ==
    /\ IF result.ok /\ Len(result.rows) > 0
       THEN Replace(result.rows) /\ UNCHANGED error
       ELSE /\ error' = IF result.ok THEN NoValidData
                        ELSE ErrorProcessing(<<result.message>>)
            /\ UNCHANGED <<data, columns, xAxis, yAxis>>
    /\ loading' = FALSE
    /\ uploads' = [uploads EXCEPT ![id].status =
                      IF result.ok /\ Len(result.rows) > 0 THEN "loaded" ELSE "failed"]
    /\ last' = [op |-> IF result.ok /\ Len(result.rows) > 0 THEN "loaded" ELSE "failed",
                id |-> id]
    /\ UNCHANGED <<chartType, fileName, csvString, csvResult>>

\* reader.onload of a readAsText
onloadText(id) ==
    /\ id \in Reading
    /\ uploads[id].read = "text"
    /\ Settle(id, parseCSVFile(Files[uploads[id].file].text))

\* reader.onload of a readAsBinaryString
onloadBinary(id) ==
    /\ id \in Reading
    /\ uploads[id].read = "binary"
    /\ Settle(id, parseExcelFile(Files[uploads[id].file].book))

\* reader.onerror of either read
onerror(id) ==
    /\ id \in Reading
    /\ Settle(id, Reject("Error reading file"))

\* The controls are rendered while data.length > 0; a select offers the
\* Column List.
setXAxis(col) ==
    /\ Len(data) > 0
    /\ xAxis' = col
    /\ last' = [op |-> "setXAxis", id |-> 0]
    /\ UNCHANGED <<data, columns, yAxis, chartType, fileName, loading, error,
                   uploads, csvString, csvResult>>

setYAxis(col) ==
    /\ Len(data) > 0
    /\ yAxis' = col
    /\ last' = [op |-> "setYAxis", id |-> 0]
    /\ UNCHANGED <<data, columns, xAxis, chartType, fileName, loading, error,
                   uploads, csvString, csvResult>>

ChartTypes == {"Bar", "Line", "Pie"}

setChartType(type) ==
    /\ Len(data) > 0
    /\ chartType' = type
    /\ last' = [op |-> "setChartType", id |-> 0]
    /\ UNCHANGED <<data, columns, xAxis, yAxis, fileName, loading, error,
                   uploads, csvString, csvResult>>

ColumnSet == {columns[i] : i \in 1..Len(columns)}

Init ==
    /\ InitApp
    /\ csvString = <<>>
    /\ csvResult = NotRun

Upload == \E f \in 1..Len(Files) : handleFileUpload(f)
LoadText == \E id \in 1..Len(uploads) : onloadText(id)
LoadBinary == \E id \in 1..Len(uploads) : onloadBinary(id)
ReadError == \E id \in 1..Len(uploads) : onerror(id)
SelectX == \E col \in ColumnSet : setXAxis(col)
SelectY == \E col \in ColumnSet : setYAxis(col)
SelectChart == \E type \in ChartTypes : setChartType(type)

Next ==
    \/ Upload
    \/ LoadText
    \/ LoadBinary
    \/ ReadError
    \/ SelectX
    \/ SelectY
    \/ SelectChart

Spec == Init /\ [][Next]_vars

----------------------------------------------------------------------------
(* The derived values on their own: one read is pending, its promise       *)
(* resolves with a dataset out of a bounded family, and the user then      *)
(* selects axes.  A row carries its position in the dataset in its first   *)
(* column.                                                                 *)

XNames == {<<>>, <<"n">>}

\* what a row holds under "v": a Number, a String, or no key at all (a row
\* of a spreadsheet whose cell was blank)
YChoices == {Num(1, 0), Num(2, 0), Num(1, 1), Str(<<"a">>), Str(<<>>), Undefined}

RowOf(xname, i, y) ==
    IF y = Undefined THEN <<[k |-> xname, v |-> Num(i, 0)]>>
    ELSE <<[k |-> xname, v |-> Num(i, 0)], [k |-> <<"v">>, v |-> y]>>

DatasetOf(xname, ys) == [i \in 1..Len(ys) |-> RowOf(xname, i, ys[i])]

\* (an empty header is a header of a CSV file, whose rows have every key)
SmallDatasets ==
    {DatasetOf(xy[1], xy[2]) :
        xy \in {p \in XNames \X (SeqsUpTo(YChoices, MaxRows) \ {<<>>}) :
                   p[1] = <<>> => \A i \in 1..Len(p[2]) : p[2][i] # Undefined}}

Patterns == {<<Num(1, 0)>>,
             <<Num(1, 0), Num(2, 0)>>,
             <<Num(2, 0), Str(<<"a">>), Num(1, 0)>>,
             <<Num(2, 0), Num(1, 0), Str(<<"a">>), Num(1, 0), Num(1, 1)>>}

LargeSizes == {MAX_DISPLAY_DATA - 1, MAX_DISPLAY_DATA, MAX_DISPLAY_DATA + 1, LargeRows}

LargeDatasets ==
    {DatasetOf(<<"n">>, [i \in 1..n |-> pat[((i - 1) % Len(pat)) + 1]]) :
        n \in LargeSizes, pat \in Patterns}

ColumnNames == {<<"R", "e", "g", "i", "o", "n">>,
                <<"S", "a", "l", "e", "s">>,
                <<"T", "O", "T", "A", "L">>,
                <<"n", "e", "t", "C", "o", "s", "t">>,
                <<>>}

ColumnValues == {Num(5, 0), Str(<<"x">>)}

\* the sequences of at most n different names
RECURSIVE NameSeqs(_)
NameSeqs(n) ==
    IF n = 0 THEN {<<>>}
    ELSE LET shorter == NameSeqs(n - 1)
         IN  shorter \cup
             {Append(ns, c) : ns \in {t \in shorter : Len(t) = n - 1},
                              c \in ColumnNames}

DistinctNameSeqs ==
    {ns \in NameSeqs(MaxCols) :
        ns # <<>> /\ \A i, j \in 1..Len(ns) : i # j => ns[i] # ns[j]}

HeaderRow(ns, vs) == [i \in 1..Len(ns) |-> [k |-> ns[i], v |-> vs[i]]]

\* one row, or the row and a second row of Numbers
HeaderDatasets ==
    UNION {{<<HeaderRow(nv[1], nv[2])>>,
            <<HeaderRow(nv[1], nv[2]),
              HeaderRow(nv[1], [i \in 1..Len(nv[1]) |-> Num(1, 0)])>>} :
           nv \in {p \in DistinctNameSeqs \X SeqsUpTo(ColumnValues, MaxCols) :
                      Len(p[1]) = Len(p[2])}}

Datasets == SmallDatasets \cup LargeDatasets \cup HeaderDatasets

InitData ==
    /\ InitApp
    /\ csvString = <<>>
    /\ csvResult = NotRun

StartRead ==
    /\ uploads = <<>>
    /\ handleFileUpload(1)

\* the promise of the read resolves with the rows of the file, whatever
\* text or sheet gave them
ResolveRows ==
    /\ 1 \in Reading
    /\ \E ds \in Datasets : Settle(1, Resolve(ds))

NextData ==
    \/ StartRead
    \/ ResolveRows
    \/ SelectX
    \/ SelectY

SpecData == InitData /\ [][NextData]_vars

----------------------------------------------------------------------------
(* The parser on its own: every text over a small alphabet, up to MaxText  *)
(* characters, is read once.                                               *)

Alphabet == {"a", "1", ",", "\"", " ", "\n"}

Texts == SeqsUpTo(Alphabet, MaxText)

InitCSV ==
    /\ InitApp
    /\ csvString \in Texts
    /\ csvResult = NotRun

ReadAsText ==
    /\ csvResult = NotRun
    /\ csvResult' = parseCSVFile(csvString)
    /\ UNCHANGED <<appVars, csvString>>

NextCSV == ReadAsText

SpecCSV == InitCSV /\ [][NextCSV]_vars

----------------------------------------------------------------------------
(* What the properties below are stated with. *)

\* the upper-case letter of a letter, any other character itself
UpperChar(c) ==
    IF \E i \in 1..Len(LowerLetters) : LowerLetters[i] = c
    THEN UpperLetters[CHOOSE i \in 1..Len(LowerLetters) : LowerLetters[i] = c]
    ELSE c

EqualsIgnoringCase(a, b) ==
    /\ Len(a) = Len(b)
    /\ \A i \in 1..Len(a) : UpperChar(a[i]) = UpperChar(b[i])

ContainsIgnoringCase(name, word) ==
    \E i \in 0..(Len(name) - Len(word)) :
        \A j \in 1..Len(word) : UpperChar(name[i + j]) = UpperChar(word[j])

\* the text after the last "." of a name (the whole name when it has none)
AfterLastDot(name) ==
    LET dots == {i \in 1..Len(name) : name[i] = "."}
    IN  IF dots = {} THEN name
        ELSE SubSeq(name, (CHOOSE i \in dots : \A j \in dots : j <= i) + 1, Len(name))

UnsupportedName(name) ==
    \A e \in Supported : ~EqualsIgnoringCase(AfterLastDot(name), e)

NameOf(id) == Files[uploads[id].file].name

\* the upload whose failure handling has just run, 0 when none has
JustFailed ==
    IF last.op = "failed" THEN last.id
    ELSE IF last.op = "upload" /\ uploads[last.id].status = "failed" THEN last.id
    ELSE 0

FailureMessages ==
    {"Failed to read file", "CSV file is empty", "Error reading file", DecodeMessage}

\* the error is one of the two user-visible forms
ErrorHasForm ==
    \/ error = NoValidData
    \/ /\ Len(error) >= 2
       /\ error[1] = "Error processing file: "
       /\ \/ Len(error) = 2 /\ error[2] \in FailureMessages
          \/ error[2] = "Unsupported file type: "

\* the rows whose yAxis value is a Number, by position
NumericRows == {i \in 1..Len(data) : Get(data[i], yAxis).t = "number"}

\* the position of a row in the Dataset (the rows of SpecData's datasets
\* differ from one another)
Pos(row) == CHOOSE i \in 1..Len(data) : data[i] = row

YOf(row) == Get(row, yAxis)

\* row a comes before row b in the chart series
Before(a, b) ==
    \/ NumLess(YOf(b), YOf(a))
    \/ YOf(a) = YOf(b) /\ Pos(a) < Pos(b)

\* the chart series is the numeric rows, greatest first, equal values in
\* their order in the Dataset, cut at MAX_DISPLAY_DATA
SeriesIsTopNumericRows ==
    LET S == processedData
        inS == {Pos(S[j]) : j \in 1..Len(S)}
    IN  /\ Len(S) = Min(MAX_DISPLAY_DATA, Cardinality(NumericRows))
        /\ \A j \in 1..Len(S) : \E i \in NumericRows : data[i] = S[j]
        /\ \A j \in 1..(Len(S) - 1) : Before(S[j], S[j + 1])
        /\ \A i \in NumericRows \ inS : Before(S[Len(S)], data[i])

\* the default Y axis the rule gives for the Column List and the first row
NumericInFirstRow(col) == Get(data[1], col).t = "number"

Preferred(col) ==
    \E i \in 1..Len(Keywords) : ContainsIgnoringCase(col, Keywords[i])

FirstColumnWith(P(_)) ==
    columns[CHOOSE i \in 1..Len(columns) :
        P(columns[i]) /\ \A j \in 1..(i - 1) : ~P(columns[j])]

RuleNumericPreferred(col) == NumericInFirstRow(col) /\ Preferred(col)

DefaultYByRule ==
    IF \E i \in 1..Len(columns) : RuleNumericPreferred(columns[i])
    THEN FirstColumnWith(RuleNumericPreferred)
    ELSE IF \E i \in 1..Len(columns) : NumericInFirstRow(columns[i])
    THEN FirstColumnWith(NumericInFirstRow)
    ELSE <<>>

\* the lines of a text that are not blank, counted by their first character
\* that is not whitespace
NonBlankLines(text) ==
    Cardinality({i \in 1..Len(text) :
        /\ text[i] \notin Whitespace
        /\ \A j \in 1..(i - 1) :
              (\A k \in j..(i - 1) : text[k] # "\n") => text[j] \in Whitespace})

\* the commas of a line with an even number of quotes before them
OutsideCommas(line) ==
    {i \in 1..Len(line) :
        /\ line[i] = ","
        /\ Cardinality({j \in 1..(i - 1) : line[j] = "\""}) % 2 = 0}

\* the text of field k of a line as written, between the commas outside quotes
Written(line, k) ==
    LET cuts == OutsideCommas(line) \cup {0, Len(line) + 1}
        from == CHOOSE c \in cuts : Cardinality({d \in cuts : d < c}) = k - 1
        to == CHOOSE c \in cuts : Cardinality({d \in cuts : d < c}) = k
    IN  SubSeq(line, from + 1, to - 1)

\* a written field is quoted: a quote, text without quotes, a quote
IsQuoted(w) ==
    /\ Len(w) >= 2
    /\ w[1] = "\"" /\ w[Len(w)] = "\""
    /\ \A i \in 2..(Len(w) - 1) : w[i] # "\""

----------------------------------------------------------------------------
(* The properties. *)

\* C1: once the failure handling of an ingestion has run, whatever the error
\* kind, Dataset and Column List are empty, the error message is non-empty
\* and of one of the two forms, and the loading flag is false.
C1_FailureLeavesCleared ==
    JustFailed # 0 =>
        /\ data = <<>>
        /\ columns = <<>>
        /\ error # NoError
        /\ ErrorHasForm
        /\ loading = FALSE

\* C2: starting an upload clears Dataset, Column List and error before the
\* read begins, and while the most recently started ingestion has neither
\* completed nor failed, Dataset and Column List are empty.
C2_NoStaleDataWhilePending ==
    /\ (last.op = "upload" /\ uploads[last.id].status = "reading") =>
           data = <<>> /\ columns = <<>> /\ error = NoError
    /\ (uploads # <<>> /\ uploads[Len(uploads)].status = "reading") =>
           data = <<>> /\ columns = <<>>

\* C3: the chart series is never longer than min(100, the number of rows
\* whose yAxis value is a Number); with both axes chosen and at least 100
\* such rows (150 of 150, say) it has exactly 100 rows.
C3_SeriesBounded ==
    /\ Len(processedData) <= Min(MAX_DISPLAY_DATA, Cardinality(NumericRows))
    /\ (xAxis # <<>> /\ yAxis # <<>> /\ Cardinality(NumericRows) >= MAX_DISPLAY_DATA) =>
           Len(processedData) = MAX_DISPLAY_DATA

C3_Witness ==
    /\ Len(data) = LargeRows
    /\ Cardinality(NumericRows) = LargeRows
    /\ Len(processedData) = MAX_DISPLAY_DATA
    /\ LargeRows > MAX_DISPLAY_DATA

\* C4: for a non-empty Dataset and a chosen yAxis the statistics are taken
\* over the whole Dataset: count is the number of rows whose yAxis value is
\* a Number, min and max are the least and the greatest of those values,
\* and min <= mean <= max whenever count > 0.
C4_StatsOverWholeDataset ==
    (Len(data) > 0 /\ yAxis # <<>>) =>
        LET st == yAxisStats
            ys == {YOf(data[i]) : i \in NumericRows}
        IN  IF NumericRows = {} THEN st.null
            ELSE /\ ~st.null
                 /\ st.count = Cardinality(NumericRows)
                 /\ st.min = CHOOSE v \in ys : \A w \in ys : ~NumLess(w, v)
                 /\ st.max = CHOOSE v \in ys : \A w \in ys : ~NumLess(v, w)
                 /\ ~DLess(st.avg, ToDouble(st.min))
                 /\ ~DLess(ToDouble(st.max), st.avg)

\* C5: after a successful ingestion the X axis is the first column, and the
\* Y axis is the first column that is a Number in the first row and whose
\* name contains a keyword whatever its case, else the first column that is
\* a Number in the first row, else the empty selection.
C5_DefaultAxes ==
    last.op = "loaded" =>
        /\ xAxis = columns[1]
        /\ yAxis = DefaultYByRule

C5_Witness ==
    /\ last.op = "loaded"
    /\ Len(columns) >= 2
    /\ columns[1] = <<"R", "e", "g", "i", "o", "n">>
    /\ NumericInFirstRow(columns[1])
    /\ yAxis = <<"S", "a", "l", "e", "s">>

\* C6, as claimed: whenever a yAxis is chosen, the chart series is the rows
\* whose yAxis value is a Number, greatest first, equal values in their
\* original order, cut at 100.
C6_SeriesWheneverYChosen ==
    (Len(data) > 0 /\ yAxis # <<>>) => SeriesIsTopNumericRows

\* C6, as amended: the same, whenever both an xAxis and a yAxis are chosen.
C6_SeriesWhenBothChosen ==
    (Len(data) > 0 /\ xAxis # <<>> /\ yAxis # <<>>) => SeriesIsTopNumericRows

C6_Witness ==
    /\ xAxis # <<>> /\ yAxis # <<>>
    /\ Len(data) = LargeRows
    /\ Cardinality(NumericRows) > MAX_DISPLAY_DATA
    /\ Cardinality(NumericRows) < LargeRows
    /\ Len(processedData) = MAX_DISPLAY_DATA
    /\ \E j \in 1..(Len(processedData) - 1) :
          YOf(processedData[j]) = YOf(processedData[j + 1])

\* C7, as claimed: in every reachable state xAxis and yAxis are each the
\* empty selection or a member of the Column List.
C7_AxesInColumnList ==
    /\ xAxis = <<>> \/ xAxis \in ColumnSet
    /\ yAxis = <<>> \/ yAxis \in ColumnSet

\* C7, as amended: the same, in every reachable state whose Column List is
\* not empty.
C7_AxesInNonEmptyColumnList ==
    columns # <<>> => C7_AxesInColumnList

C7_Witness ==
    /\ last = [op |-> "loaded", id |-> 2]
    /\ uploads[1].status = "loaded"
    /\ uploads[1].file # uploads[2].file
    /\ yAxis # <<>>

\* C8: every row of the Dataset has exactly the keys of the first row.
C8_RowsShareKeys ==
    \A i \in 1..Len(data) : KeySet(data[i]) = KeySet(data[1])

\* C9: an upload whose extension is none of csv, xlsx, xls, whatever its
\* case, fails with the unsupported-file-type error naming the extension,
\* and no read is ever started for it.
C9_UnsupportedFailsBeforeRead ==
    \A id \in 1..Len(uploads) :
        UnsupportedName(NameOf(id)) =>
            /\ uploads[id].read = "none"
            /\ uploads[id].status = "failed"
            /\ last = [op |-> "upload", id |-> id] =>
                  /\ Len(error) >= 2
                  /\ error[1] = "Error processing file: "
                  /\ error[2] = "Unsupported file type: "
                  /\ EqualsIgnoringCase(SubSeq(error, 3, Len(error)),
                                        AfterLastDot(NameOf(id)))
                  /\ loading = FALSE

C9_Witness ==
    /\ last.op = "upload"
    /\ UnsupportedName(NameOf(last.id))
    /\ AfterLastDot(NameOf(last.id)) # <<>>
    /\ \E id \in 1..Len(uploads) : uploads[id].status = "reading"

\* C10: a text with a header line and N more non-blank lines parses to N
\* rows keyed by the header entries; every line yields one field more than
\* it has commas outside quotes, and a quoted field comes out as the text
\* between its quotes, commas included.
C10_ParserRowsAndFields ==
    (csvResult # NotRun /\ NonBlankLines(csvString) >= 1) =>
        LET lines == split(csvString, "\n")
            header == CHOOSE i \in 1..Len(lines) :
                          trim(lines[i]) # <<>> /\ \A j \in 1..(i - 1) : trim(lines[j]) = <<>>
        IN  /\ csvResult.ok
            /\ Len(csvResult.rows) = NonBlankLines(csvString) - 1
            /\ \A r \in 1..Len(csvResult.rows) :
                  KeySet(csvResult.rows[r]) =
                      {parseCSVLine(lines[header])[c] :
                          c \in 1..Len(parseCSVLine(lines[header]))}
            /\ \A n \in 1..Len(lines) :
                  /\ Len(parseCSVLine(lines[n])) =
                         Cardinality(OutsideCommas(lines[n])) + 1
                  /\ \A k \in 1..Len(parseCSVLine(lines[n])) :
                        LET w == trim(Written(lines[n], k))
                        IN  IsQuoted(w) =>
                                parseCSVLine(lines[n])[k] = SubSeq(w, 2, Len(w) - 1)

C10_Witness ==
    /\ csvResult.ok
    /\ Len(csvResult.rows) = 1
    /\ \E e \in 1..Len(csvResult.rows[1]) :
          /\ csvResult.rows[1][e].v.t = "string"
          /\ \E i \in 1..Len(csvResult.rows[1][e].v.s) : csvResult.rows[1][e].v.s[i] = ","
          /\ Len(csvResult.rows[1][e].v.s) >= 2

\* C11: the axes change only by a selection of the user or by a replacement
\* of the Dataset.  A successful ingestion sets both axes to the defaults of
\* the new Dataset alone, whatever they were; a selection of one axis leaves
\* the other; an upload start, an ingestion failure and a change of chart
\* kind leave both.
C11_AxesFrame ==
    [][/\ (xAxis' # xAxis \/ yAxis' # yAxis) =>
              last'.op \in {"loaded", "setXAxis", "setYAxis"}
       /\ last'.op = "loaded" =>
              /\ xAxis' = columns'[1]
              /\ yAxis' = DefaultYByRule'
       /\ last'.op = "setXAxis" => xAxis' \in ColumnSet /\ yAxis' = yAxis
       /\ last'.op = "setYAxis" => yAxis' \in ColumnSet /\ xAxis' = xAxis
       /\ last'.op \in {"upload", "failed", "setChartType"} =>
              xAxis' = xAxis /\ yAxis' = yAxis]_vars

\* the second upload has failed after a.csv was loaded, and the X axis is
\* still the column the user chose in place of the default
C11_Witness ==
    /\ Len(uploads) = 2
    /\ last = [op |-> "failed", id |-> 2]
    /\ uploads[1].status = "loaded"
    /\ Files[uploads[1].file].name = <<"a", ".", "c", "s", "v">>
    /\ data = <<>>
    /\ xAxis = <<"A", "m", "o", "u", "n", "t">>
    /\ yAxis = <<"A", "m", "o", "u", "n", "t">>

====
